---- MODULE Spec2Model ----
(***************************************************************************)
(* The in-memory OCED registry of src/oced_framework.py (class             *)
(* OCEDMetaModel): objects, events, observe relations, the violation log,  *)
(* the insertion API, the temporal validator and the Alloy exporter.       *)
(*                                                                         *)
(* Representation.                                                         *)
(*   - A Python dict is a sequence of records in insertion order, looked   *)
(*     up by the record's id.                                              *)
(*   - A Python set of ids (Event.linked_objects) is a duplicate-free      *)
(*     sequence: the set in the order this process iterates it.  The order *)
(*     is fixed when the set is built and is any order of its elements.    *)
(*   - A datetime is a natural number; None is the value None below.       *)
(*   - A formatted log string is the tuple of its literal head and the     *)
(*     values interpolated into it, in the order they appear.              *)
(*   - call and ret record the last call made and what it returned;        *)
(*     violations is the validator's local list of its last run, and is    *)
(*     empty once another call has been made.                              *)
(*   - Object.deleted is a plain field: the core never writes it, a caller *)
(*     may (set_deleted).                                                  *)
(*   - The handlers add_object, add_event, ... are calls made by a single  *)
(*     caller, one after the other.  threads holds callers that run        *)
(*     add_object or add_event side by side: a thread may be switched      *)
(*     between the id check, the insertion and each append to observes.    *)
(*     lock is "unused" when the callers do not serialize, else "free" or  *)
(*     the thread that holds it for the length of its call.                *)
(***************************************************************************)
EXTENDS Integers, Sequences, FiniteSets, TLC

\* ------------------------------------------------------------------ bounds
MaxTime == 1          \* Spec: the datetimes passed are 0..MaxTime
MaxTimeV == 2         \* SpecValidate: the datetimes passed are 0..MaxTimeV
MaxLinked == 2        \* longest linked_objects list passed to add_event
MaxObservesArg == 2   \* largest max_observes passed to the constructor
MaxLog == 2           \* Spec: longest violation log explored
MaxLogV == 4          \* SpecValidate: longest violation log explored
MaxEntities == 3      \* most objects plus events registered
MaxLinkedL == 4       \* SpecLinks: longest linked_objects list, and max_observes

\* ------------------------------------------------------------------ values
None == -1

ObjIdSet == {"A", "B"}
ObjIdSetL == {"A", "B", "C"}
EvtIdSet == {"E1"}
EvtIdSetV == {"E1", "E2"}
Times == 0..MaxTime
TimesV == 0..MaxTimeV
ObjectType == {"case"}
EventType == {"start"}
AttrSet == {"attrs"}
INVOLVES == "involves"
Threads == {"T1", "T2"}
\* A thread that has not entered its call.
Idle ==
    [pc |-> "idle", op |-> "none", id |-> "none", time |-> 0, linked |-> <<>>,
     i |-> 0, ret |-> None]

\* Faulty variant: the created stamp is passed on as the deleted stamp too.
Object_deleted_at_created(id, type, attributes, created) ==
    [id |-> id, type |-> type, attributes |-> attributes,
     created |-> created, deleted |-> created]

Object(id, type, attributes, created) ==
    [id |-> id, type |-> type, attributes |-> attributes,
     created |-> created, deleted |-> None]

Event(id, type, timestamp, attributes, linked_objects) ==
    [id |-> id, type |-> type, timestamp |-> timestamp,
     attributes |-> attributes, linked_objects |-> linked_objects]

Observe(event_id, object_id, relation) ==
    [event_id |-> event_id, object_id |-> object_id, relation |-> relation]

\* ------------------------------------------------------------------ state
VARIABLES
    objects,               \* self.objects
    events,                \* self.events
    observes,              \* self.observes
    max_observes,          \* self.max_observes
    constraints_violated,  \* self._constraints_violated
    violations,            \* the validator's local list, when it has just returned
    call,                  \* the last call: its name and the arguments that identify it
    ret,                   \* what the last call returned
    threads,               \* each caller thread's position in its call, and its locals
    lock                   \* the embedding system's lock around insertions, if it uses one

vars == <<objects, events, observes, max_observes, constraints_violated,
          violations, call, ret, threads, lock>>
callers == <<threads, lock>>
registry == <<objects, events, observes, max_observes>>

\* ------------------------------------------------------------------ dicts and sets
Range(s) == {s[i] : i \in DOMAIN s}
Keys(d) == {d[i].id : i \in DOMAIN d}
Get(d, k) == d[CHOOSE i \in DOMAIN d : d[i].id = k]

\* Faulty variant: a write under a key already in d adds a second entry.
DictInsert_append(d, v) == Append(d, v)

\* d[v.id] = v: a new key goes last, a key already in d keeps its place and
\* gets the new value.
DictInsert(d, v) ==
    IF v.id \in Keys(d)
    THEN [i \in DOMAIN d |-> IF d[i].id = v.id THEN v ELSE d[i]]
    ELSE Append(d, v)

\* The lists of length 0..n over S.
Lists(S, n) == UNION {[1..k -> S] : k \in 0..n}

\* set(list): every iteration order the set built from the list can have.
SetOf(list) ==
    {s \in Lists(Range(list), Cardinality(Range(list))) :
        /\ Len(s) = Cardinality(Range(list))
        /\ Range(s) = Range(list)}

\* ------------------------------------------------------------------ add_object
\* Faulty variant: only objects without a deleted stamp count as registered.
HasObject_live(obj_id) ==
    \E i \in DOMAIN objects : objects[i].id = obj_id /\ objects[i].deleted = None

HasObject(obj_id) == obj_id \in Keys(objects)

add_object(obj_id, obj_type, attributes, created) ==
    /\ call' = <<"add_object", obj_id>>
    /\ UNCHANGED callers
    /\ violations' = <<>>
    /\ IF HasObject(obj_id)
       THEN /\ constraints_violated' =
                  Append(constraints_violated, <<"Duplicate object ID", obj_id>>)
            /\ ret' = FALSE
            /\ UNCHANGED registry
       ELSE /\ objects' = DictInsert(objects, Object(obj_id, obj_type, attributes, created))
            /\ ret' = TRUE
            /\ UNCHANGED <<events, observes, max_observes, constraints_violated>>

\* ------------------------------------------------------------------ add_event
\* Faulty variant: only the first id of the list is looked up.
FirstUnknown_head_only(linked_objects) ==
    IF linked_objects # <<>> /\ linked_objects[1] \notin Keys(objects)
    THEN {linked_objects[1]}
    ELSE {}

\* Faulty variant: the existence loop is missing.
FirstUnknown_skipped(linked_objects) == {}

\* Faulty variant: the cardinality check comes before the existence loop, so
\* a list longer than max_observes is never reported for a missing id.
FirstUnknown_after_cardinality(linked_objects) ==
    IF Len(linked_objects) > max_observes
    THEN {}
    ELSE {linked_objects[i] : i \in
            {j \in DOMAIN linked_objects :
                /\ linked_objects[j] \notin Keys(objects)
                /\ \A h \in 1..(j-1) : linked_objects[h] \in Keys(objects)}}

\* The first id of the list that is no key of objects, as a set of at most one.
FirstUnknown(linked_objects) ==
    {linked_objects[i] : i \in
        {j \in DOMAIN linked_objects :
            /\ ~HasObject(linked_objects[j])
            /\ \A h \in 1..(j-1) : HasObject(linked_objects[h])}}

\* Faulty variant: the distinct ids are counted, not the list.
ExceedsMaxObserves_distinct(linked_objects) ==
    Cardinality(Range(linked_objects)) > max_observes

\* Faulty variant: a list of exactly max_observes ids is refused too.
ExceedsMaxObserves_inclusive(linked_objects) ==
    Len(linked_objects) >= max_observes

\* Faulty variant: one id more than max_observes is let through.
ExceedsMaxObserves_lenient(linked_objects) ==
    Len(linked_objects) > max_observes + 1

ExceedsMaxObserves(linked_objects) == Len(linked_objects) > max_observes

NewObserves(event_id, linked_objects) ==
    [i \in DOMAIN linked_objects |-> Observe(event_id, linked_objects[i], INVOLVES)]

\* Faulty variant: the duplicate-event check is missing.
HasEvent_missing(event_id) == FALSE

HasEvent(event_id) == event_id \in Keys(events)

add_event(event_id, event_type, timestamp, attributes, linked_objects) ==
    /\ call' = <<"add_event", event_id, linked_objects>>
    /\ UNCHANGED callers
    /\ violations' = <<>>
    /\ IF HasEvent(event_id)
       THEN /\ constraints_violated' =
                  Append(constraints_violated, <<"Duplicate event ID", event_id>>)
            /\ ret' = FALSE
            /\ UNCHANGED registry
       ELSE IF FirstUnknown(linked_objects) # {}
       THEN /\ \E obj_id \in FirstUnknown(linked_objects) :
                  constraints_violated' =
                     Append(constraints_violated, <<"Unknown object ID", obj_id>>)
            /\ ret' = FALSE
            /\ UNCHANGED registry
       ELSE IF ExceedsMaxObserves(linked_objects)
       THEN /\ constraints_violated' =
                  Append(constraints_violated,
                         <<"exceeds max observes", event_id,
                           Len(linked_objects), max_observes>>)
            /\ ret' = FALSE
            /\ UNCHANGED registry
       ELSE /\ \E linked_set \in SetOf(linked_objects) :
                  events' = DictInsert(events,
                     Event(event_id, event_type, timestamp, attributes, linked_set))
            /\ observes' = observes \o NewObserves(event_id, linked_objects)
            /\ ret' = TRUE
            /\ UNCHANGED <<objects, max_observes, constraints_violated>>

\* ------------------------------------------------------------------ validate
RECURSIVE Concat(_)
Concat(ss) == IF ss = <<>> THEN <<>> ELSE Head(ss) \o Concat(Tail(ss))

Before(event, obj) ==
    IF event.timestamp < obj.created
    THEN << <<"before", event.id, event.timestamp, obj.id, obj.created>> >>
    ELSE <<>>

\* Faulty variant: an event at the deletion instant is reported.
After_strict(event, obj) ==
    IF obj.deleted # None /\ event.timestamp >= obj.deleted
    THEN << <<"after", event.id, event.timestamp, obj.id, obj.deleted>> >>
    ELSE <<>>

After(event, obj) ==
    IF obj.deleted # None /\ event.timestamp > obj.deleted
    THEN << <<"after", event.id, event.timestamp, obj.id, obj.deleted>> >>
    ELSE <<>>

\* Faulty variant: the second if is an elif.
PairViolations_elif(event, obj) ==
    IF Before(event, obj) # <<>> THEN Before(event, obj) ELSE After(event, obj)

\* One pass of the inner loop's body: the two ifs, in order.
PairViolations(event, obj) == Before(event, obj) \o After(event, obj)

EventViolations(event) ==
    Concat([i \in DOMAIN event.linked_objects |->
               PairViolations(event, Get(objects, event.linked_objects[i]))])

\* Faulty variant: a violation already in the log is not reported again.
NotLogged(v) == v \notin Range(constraints_violated)
Violations_dedup ==
    SelectSeq(Concat([i \in DOMAIN events |-> EventViolations(events[i])]), NotLogged)

Violations == Concat([i \in DOMAIN events |-> EventViolations(events[i])])

\* Faulty variant: the validator drops the events it finds in violation.
validate_repairing ==
    /\ call' = <<"validate_temporal_consistency">>
    /\ UNCHANGED callers
    /\ violations' = Violations
    /\ constraints_violated' = constraints_violated \o violations'
    /\ ret' = (Len(violations') = 0)
    /\ events' = SelectSeq(events, LAMBDA e : EventViolations(e) = <<>>)
    /\ UNCHANGED <<objects, observes, max_observes>>

validate_temporal_consistency ==
    /\ call' = <<"validate_temporal_consistency">>
    /\ UNCHANGED callers
    /\ violations' = Violations
    /\ constraints_violated' = constraints_violated \o violations'
    /\ ret' = (Len(violations') = 0)
    /\ UNCHANGED registry

\* ------------------------------------------------------------------ get_violations
\* Faulty variant: reading the log empties it.
get_violations_drain ==
    /\ call' = <<"get_violations">>
    /\ UNCHANGED callers
    /\ violations' = <<>>
    /\ ret' = constraints_violated
    /\ constraints_violated' = <<>>
    /\ UNCHANGED registry

get_violations ==
    /\ call' = <<"get_violations">>
    /\ UNCHANGED callers
    /\ violations' = <<>>
    /\ ret' = constraints_violated
    /\ UNCHANGED <<registry, constraints_violated>>

\* ------------------------------------------------------------------ to_alloy_format
\* The text returned, as its sections: each a sequence of lines, a line being
\* the tuple of its literal head and the ids interpolated into it; and the
\* three numbers of the closing run command.
objects_sig == [i \in DOMAIN objects |-> <<"one sig Obj_", objects[i].id>>]

events_sig == [i \in DOMAIN events |-> <<"one sig Evt_", events[i].id>>]

observes_facts ==
    [i \in DOMAIN observes |->
        <<"fact some obs", observes[i].event_id, observes[i].object_id>>]

\* Faulty variant: a fact is left out once the log names its event and object.
Logged(event_id, obj_id) ==
    \E k \in DOMAIN constraints_violated :
        /\ Len(constraints_violated[k]) = 5
        /\ constraints_violated[k][2] = event_id
        /\ constraints_violated[k][4] = obj_id
temporal_constraints_unlogged ==
    Concat([i \in DOMAIN events |->
        SelectSeq([j \in DOMAIN events[i].linked_objects |->
                      <<"timestamp in created.nexts", events[i].id,
                        events[i].linked_objects[j]>>],
                  LAMBDA line : ~Logged(line[2], line[3]))])

temporal_constraints ==
    Concat([i \in DOMAIN events |->
        [j \in DOMAIN events[i].linked_objects |->
            <<"timestamp in created.nexts", events[i].id,
              events[i].linked_objects[j]>>]])

alloy_text ==
    [objects_sig |-> objects_sig,
     events_sig |-> events_sig,
     observes_facts |-> observes_facts,
     temporal_constraints |-> temporal_constraints,
     scope |-> <<Cardinality({events[i].timestamp : i \in DOMAIN events}),
                 Len(objects), Len(events)>>]

\* Faulty variant: the export runs the validator first, which logs what it finds.
to_alloy_validating ==
    /\ call' = <<"to_alloy_format">>
    /\ UNCHANGED callers
    /\ violations' = <<>>
    /\ ret' = alloy_text
    /\ constraints_violated' = constraints_violated \o Violations
    /\ UNCHANGED registry

to_alloy_format ==
    /\ call' = <<"to_alloy_format">>
    /\ UNCHANGED callers
    /\ violations' = <<>>
    /\ ret' = alloy_text
    /\ UNCHANGED <<registry, constraints_violated>>

\* ------------------------------------------------------------------ the caller sets Object.deleted
set_deleted(obj_id, t) ==
    /\ obj_id \in Keys(objects)
    /\ call' = <<"set_deleted", obj_id>>
    /\ UNCHANGED callers
    /\ violations' = <<>>
    /\ objects' = [i \in DOMAIN objects |->
                     IF objects[i].id = obj_id
                     THEN [objects[i] EXCEPT !.deleted = t]
                     ELSE objects[i]]
    /\ ret' = None
    /\ UNCHANGED <<events, observes, max_observes, constraints_violated>>

\* ------------------------------------------------------------------ interleaved insertions
\* The lock once the call of its holder returns.
Release == IF lock = "unused" THEN "unused" ELSE "free"

\* Faulty variant: the lock does not keep a second caller out.
Acquired_shared(t) == lock \in {"unused", "free", "T1", "T2"}

\* Thread t may enter its call: there is no lock, or it is free and t takes it.
Acquired(t) == lock \in {"unused", "free"}

\* Thread t enters add_object (linked is <<>>) or add_event with its arguments.
begin(t, op, id, time, linked) ==
    /\ threads[t].pc = "idle"
    /\ Acquired(t)
    /\ lock' = IF lock = "unused" THEN "unused" ELSE t
    /\ threads' = [threads EXCEPT ![t] =
                     [pc |-> "check", op |-> op, id |-> id, time |-> time,
                      linked |-> linked, i |-> 1, ret |-> None]]
    /\ UNCHANGED <<registry, constraints_violated, violations, call, ret>>

\* add_object up to the insertion: the id check and, if it fails, the return.
add_object_check(t) ==
    /\ threads[t].pc = "check"
    /\ threads[t].op = "add_object"
    /\ IF HasObject(threads[t].id)
       THEN /\ constraints_violated' =
                 Append(constraints_violated, <<"Duplicate object ID", threads[t].id>>)
            /\ threads' = [threads EXCEPT ![t].pc = "done", ![t].ret = FALSE]
            /\ lock' = Release
       ELSE /\ threads' = [threads EXCEPT ![t].pc = "insert"]
            /\ UNCHANGED <<constraints_violated, lock>>
    /\ UNCHANGED <<registry, violations, call, ret>>

\* add_object from the insertion on: the write to objects and the return.
add_object_insert(t) ==
    /\ threads[t].pc = "insert"
    /\ threads[t].op = "add_object"
    /\ \E obj_type \in ObjectType, attributes \in AttrSet :
         objects' = DictInsert(objects,
                        Object(threads[t].id, obj_type, attributes, threads[t].time))
    /\ threads' = [threads EXCEPT ![t].pc = "done", ![t].ret = TRUE]
    /\ lock' = Release
    /\ UNCHANGED <<events, observes, max_observes, constraints_violated,
                   violations, call, ret>>

\* add_event up to the insertion: the three checks and, if one fails, the return.
add_event_check(t) ==
    /\ threads[t].pc = "check"
    /\ threads[t].op = "add_event"
    /\ LET refuse(entry) ==
             /\ constraints_violated' = Append(constraints_violated, entry)
             /\ threads' = [threads EXCEPT ![t].pc = "done", ![t].ret = FALSE]
             /\ lock' = Release
       IN  IF HasEvent(threads[t].id)
           THEN refuse(<<"Duplicate event ID", threads[t].id>>)
           ELSE IF FirstUnknown(threads[t].linked) # {}
           THEN \E obj_id \in FirstUnknown(threads[t].linked) :
                    refuse(<<"Unknown object ID", obj_id>>)
           ELSE IF ExceedsMaxObserves(threads[t].linked)
           THEN refuse(<<"exceeds max observes", threads[t].id,
                         Len(threads[t].linked), max_observes>>)
           ELSE /\ threads' = [threads EXCEPT ![t].pc = "insert"]
                /\ UNCHANGED <<constraints_violated, lock>>
    /\ UNCHANGED <<registry, violations, call, ret>>

\* add_event's write to events.
add_event_insert(t) ==
    /\ threads[t].pc = "insert"
    /\ threads[t].op = "add_event"
    /\ \E event_type \in EventType, attributes \in AttrSet,
          linked_set \in SetOf(threads[t].linked) :
         events' = DictInsert(events,
                       Event(threads[t].id, event_type, threads[t].time,
                             attributes, linked_set))
    /\ threads' = [threads EXCEPT ![t].pc = "observe"]
    /\ UNCHANGED <<objects, observes, max_observes, constraints_violated,
                   violations, call, ret, lock>>

\* One turn of add_event's loop over the list: an append to observes, or the
\* end of the loop and the return.
add_event_observe(t) ==
    /\ threads[t].pc = "observe"
    /\ IF threads[t].i <= Len(threads[t].linked)
       THEN /\ observes' = Append(observes,
                    Observe(threads[t].id, threads[t].linked[threads[t].i], INVOLVES))
            /\ threads' = [threads EXCEPT ![t].i = @ + 1]
            /\ UNCHANGED lock
       ELSE /\ threads' = [threads EXCEPT ![t].pc = "done", ![t].ret = TRUE]
            /\ lock' = Release
            /\ UNCHANGED observes
    /\ UNCHANGED <<objects, events, max_observes, constraints_violated,
                   violations, call, ret>>

\* The embedding system puts its lock around insertions.
use_lock ==
    /\ lock = "unused"
    /\ \A t \in Threads : threads[t].pc = "idle"
    /\ lock' = "free"
    /\ UNCHANGED <<registry, constraints_violated, violations, call, ret, threads>>

\* ------------------------------------------------------------------ specification
\* The registry after the constructor has run.
OCEDMetaModel(max_observes_arg) ==
    /\ objects = <<>>
    /\ events = <<>>
    /\ observes = <<>>
    /\ max_observes = max_observes_arg
    /\ constraints_violated = <<>>
    /\ violations = <<>>
    /\ call = <<"__init__">>
    /\ ret = None
    /\ threads = [t \in Threads |-> Idle]
    /\ lock = "unused"

Init == \E max_observes_arg \in 0..MaxObservesArg : OCEDMetaModel(max_observes_arg)

\* The bounds of the exploration: the registry holds at most MaxEntities
\* records, and a call that would make the log longer than MaxLog (MaxLogV)
\* entries is not made.
RoomFor(id, d) == id \in Keys(d) \/ Len(objects) + Len(events) < MaxEntities

\* Spec: any caller.  Every call of the API with arguments from the small sets,
\* failing calls included.
AddObject ==
    \E obj_id \in ObjIdSet, obj_type \in ObjectType, attributes \in AttrSet,
       created \in Times :
        /\ RoomFor(obj_id, objects)
        /\ add_object(obj_id, obj_type, attributes, created)
        /\ Len(constraints_violated') <= MaxLog

AddEvent ==
    \E event_id \in EvtIdSet, event_type \in EventType, timestamp \in Times,
       attributes \in AttrSet, linked_objects \in Lists(ObjIdSet, MaxLinked) :
        /\ RoomFor(event_id, events)
        /\ add_event(event_id, event_type, timestamp, attributes, linked_objects)
        /\ Len(constraints_violated') <= MaxLog

Validate ==
    /\ validate_temporal_consistency
    /\ Len(constraints_violated') <= MaxLog

GetViolations == get_violations

ToAlloy == to_alloy_format

SetDeleted == \E obj_id \in ObjIdSet, t \in Times : set_deleted(obj_id, t)

Next ==
    AddObject \/ AddEvent \/ Validate \/ GetViolations \/ ToAlloy \/ SetDeleted

Spec == Init /\ [][Next]_vars

\* SpecValidate: the pipeline of EnhancedOCEDFramework.run_complete_analysis,
\* over two events and the wider range of datetimes.  The importer populates
\* the registry with insertions that succeed (fresh ids, registered objects)
\* and deletion stamps; then the validator runs, any number of times, and the
\* log is read.
Populating == call[1] \in {"__init__", "add_object", "add_event", "set_deleted"}

AddObjectV ==
    \E obj_id \in ObjIdSet, obj_type \in ObjectType, attributes \in AttrSet,
       created \in TimesV :
        /\ Populating
        /\ RoomFor(obj_id, objects)
        /\ obj_id \notin Keys(objects)
        /\ add_object(obj_id, obj_type, attributes, created)

AddEventV ==
    \E event_id \in EvtIdSetV, event_type \in EventType, timestamp \in TimesV,
       attributes \in AttrSet, linked_objects \in Lists(ObjIdSet, MaxLinked) :
        /\ Populating
        /\ RoomFor(event_id, events)
        /\ event_id \notin Keys(events)
        /\ Range(linked_objects) \subseteq Keys(objects)
        /\ Len(linked_objects) <= max_observes
        /\ add_event(event_id, event_type, timestamp, attributes, linked_objects)

ValidateV ==
    /\ validate_temporal_consistency
    /\ Len(constraints_violated') <= MaxLogV

SetDeletedV ==
    \E obj_id \in ObjIdSet, t \in TimesV : Populating /\ set_deleted(obj_id, t)

NextV == AddObjectV \/ AddEventV \/ ValidateV \/ GetViolations \/ SetDeletedV

SpecValidate == Init /\ [][NextV]_vars

\* SpecLinks: an importer whose insertions all succeed, over three objects
\* and one event, with lists of up to MaxLinkedL ids, repeats included, on a
\* registry built as OCEDMetaModel(max_observes=MaxLinkedL).
InitL == OCEDMetaModel(MaxLinkedL)

AddObjectL ==
    \E obj_id \in ObjIdSetL, obj_type \in ObjectType, attributes \in AttrSet,
       created \in Times :
        /\ obj_id \notin Keys(objects)
        /\ add_object(obj_id, obj_type, attributes, created)

AddEventL ==
    \E event_id \in EvtIdSet, event_type \in EventType, timestamp \in Times,
       attributes \in AttrSet, linked_objects \in Lists(ObjIdSetL, MaxLinkedL) :
        /\ event_id \notin Keys(events)
        /\ Range(linked_objects) \subseteq Keys(objects)
        /\ Len(linked_objects) <= max_observes
        /\ add_event(event_id, event_type, timestamp, attributes, linked_objects)

NextL == AddObjectL \/ AddEventL

SpecLinks == InitL /\ [][NextL]_vars

\* Two threads that insert under the same id.  A single caller registers
\* objects first; then each thread makes one call, add_object or add_event,
\* that is valid on its own: the id is new when the first of the two enters,
\* the linked ids are registered and no more than max_observes.  The second
\* thread makes the same kind of call with the same id.
Other(t) == CHOOSE u \in Threads : u # t
NoneBegun == \A t \in Threads : threads[t].pc = "idle"
SameAsOther(t, op, id) ==
    threads[Other(t)].pc # "idle"
        => threads[Other(t)].op = op /\ threads[Other(t)].id = id
AddObjectR ==
    /\ NoneBegun
    /\ \E obj_id \in ObjIdSet, obj_type \in ObjectType, attributes \in AttrSet,
          created \in Times :
        /\ obj_id \notin Keys(objects)
        /\ add_object(obj_id, obj_type, attributes, created)
UseLock == use_lock
BeginAddObject ==
    \E t \in Threads, obj_id \in ObjIdSet, created \in Times :
        /\ NoneBegun => obj_id \notin Keys(objects)
        /\ SameAsOther(t, "add_object", obj_id)
        /\ begin(t, "add_object", obj_id, created, <<>>)
BeginAddEvent ==
    \E t \in Threads, event_id \in EvtIdSet, timestamp \in Times,
       linked_objects \in Lists(ObjIdSet, MaxLinked) :
        /\ NoneBegun => event_id \notin Keys(events)
        /\ Range(linked_objects) \subseteq Keys(objects)
        /\ Len(linked_objects) <= max_observes
        /\ SameAsOther(t, "add_event", event_id)
        /\ begin(t, "add_event", event_id, timestamp, linked_objects)
AddObjectCheck == \E t \in Threads : add_object_check(t)
AddObjectInsert == \E t \in Threads : add_object_insert(t)
AddEventCheck == \E t \in Threads : add_event_check(t)
AddEventInsert == \E t \in Threads : add_event_insert(t)
AddEventObserve == \E t \in Threads : add_event_observe(t)
NextR ==
    \/ AddObjectR
    \/ UseLock
    \/ BeginAddObject
    \/ BeginAddEvent
    \/ AddObjectCheck
    \/ AddObjectInsert
    \/ AddEventCheck
    \/ AddEventInsert
    \/ AddEventObserve
SpecRace == Init /\ [][NextR]_vars

\* ------------------------------------------------------------------ claims
\* What a step reads of the call it makes, and what the call appended.
IsCall(c, name) == c[1] = name
Appended == SubSeq(constraints_violated', Len(constraints_violated) + 1,
                   Len(constraints_violated'))
IsPrefix(s, t) == Len(s) <= Len(t) /\ SubSeq(t, 1, Len(s)) = s
ObservesOf(obs, event_id) == {i \in DOMAIN obs : obs[i].event_id = event_id}
LastLogged == constraints_violated[Len(constraints_violated)]

\* C1: an add_event call with a new event id whose list holds an id that is
\* no key of objects returns False and leaves objects, events and observes as
\* they were: the event id is no key of events and no Observe record carries
\* it, also when ids earlier in the list are registered.
C1_UnknownObjectRejected ==
    [][(/\ IsCall(call', "add_event")
        /\ call'[2] \notin Keys(events)
        /\ \E i \in DOMAIN call'[3] : call'[3][i] \notin Keys(objects))
       => (/\ ret' = FALSE
           /\ objects' = objects
           /\ events' = events
           /\ observes' = observes
           /\ call'[2] \notin Keys(events')
           /\ ObservesOf(observes', call'[2]) = {})]_vars

\* add_event(E, .., [x, y]) with x registered and y not has just returned
\* False, and E is not registered.
C1_Witness ==
    /\ IsCall(call, "add_event")
    /\ ret = FALSE
    /\ Len(call[3]) = 2
    /\ call[3][1] \in Keys(objects)
    /\ call[3][2] \notin Keys(objects)
    /\ call[2] \notin Keys(events)
    /\ constraints_violated # <<>>
    /\ LastLogged = <<"Unknown object ID", call[3][2]>>

\* C2: an add_event call that succeeds with a list L of the three ids A, B, C
\* appends exactly three Observe records, (event_id, x, INVOLVES) for each x
\* of {A, B, C}, however L is ordered and whatever it repeats, and stores
\* {A, B, C} as linked_objects.
C2_OneObservePerLinkedObject ==
    [][(/\ IsCall(call', "add_event")
        /\ ret' = TRUE
        /\ Range(call'[3]) = ObjIdSetL)
       => LET event_id == call'[2]
              S == Range(call'[3])
              new == SubSeq(observes', Len(observes) + 1, Len(observes'))
          IN  /\ Len(new) = Cardinality(S)
              /\ Range(new) = {Observe(event_id, x, INVOLVES) : x \in S}
              /\ Cardinality(ObservesOf(observes', event_id)) = Cardinality(S)
              /\ Range(Get(events', event_id).linked_objects) = S]_vars

\* C3: an add_object call with an id that is a key of objects returns False
\* and leaves objects (every stored record, the deleted stamp included),
\* events and observes as they were, also when the stored object's deleted
\* stamp is set.
C3_DuplicateObjectRejected ==
    [][(IsCall(call', "add_object") /\ call'[2] \in Keys(objects))
       => (/\ ret' = FALSE
           /\ objects' = objects
           /\ events' = events
           /\ observes' = observes)]_vars

\* add_object has just returned False for the id of an object whose deleted
\* stamp is set.
C3_Witness ==
    /\ IsCall(call, "add_object")
    /\ ret = FALSE
    /\ call[2] \in Keys(objects)
    /\ Get(objects, call[2]).deleted # None

\* C4: the registry starts empty with an empty log, and every add_object call
\* with an id that is no key of objects returns True, appends nothing to the
\* log, keeps every stored record and adds the id as a key, mapped to the
\* type, attributes and created of the call with deleted unset.  So a run of
\* add_object calls with pairwise distinct ids on a fresh registry succeeds
\* throughout, keeps the log empty and registers exactly the ids passed.
C4_DistinctObjectsAccepted ==
    /\ (objects = <<>> /\ constraints_violated = <<>>)
    /\ [][\A obj_id \in ObjIdSet, obj_type \in ObjectType,
             attributes \in AttrSet, created \in Times :
            (/\ add_object(obj_id, obj_type, attributes, created)
             /\ obj_id \notin Keys(objects))
            => (/\ ret' = TRUE
                /\ constraints_violated' = constraints_violated
                /\ Len(objects') = Len(objects) + 1
                /\ Keys(objects') = Keys(objects) \cup {obj_id}
                /\ \A k \in Keys(objects) : Get(objects', k) = Get(objects, k)
                /\ Get(objects', obj_id) =
                      [id |-> obj_id, type |-> obj_type,
                       attributes |-> attributes, created |-> created,
                       deleted |-> None])]_vars

\* Two add_object calls with distinct ids have been made on a fresh registry:
\* both ids are registered, the log is empty and the last call returned True.
C4_Witness ==
    /\ IsCall(call, "add_object")
    /\ ret = TRUE
    /\ Keys(objects) = ObjIdSet
    /\ Len(objects) = Cardinality(ObjIdSet)
    /\ events = <<>>
    /\ constraints_violated = <<>>
    /\ \A i \in DOMAIN objects : objects[i].deleted = None

\* C5: an add_event call with a new event id and a list of registered ids
\* longer than max_observes returns False, does not insert the event and
\* appends no Observe record for that event id.
C5_TooManyObservesRejected ==
    [][(/\ IsCall(call', "add_event")
        /\ call'[2] \notin Keys(events)
        /\ Range(call'[3]) \subseteq Keys(objects)
        /\ Len(call'[3]) > max_observes)
       => (/\ ret' = FALSE
           /\ events' = events
           /\ observes' = observes
           /\ call'[2] \notin Keys(events')
           /\ ObservesOf(observes', call'[2]) = {})]_vars

\* add_event has just returned False for a new event id and a list of two
\* distinct registered ids, with max_observes = 1.
C5_Witness ==
    /\ IsCall(call, "add_event")
    /\ ret = FALSE
    /\ call[2] \notin Keys(events)
    /\ Cardinality(Range(call[3])) = 2
    /\ Range(call[3]) \subseteq Keys(objects)
    /\ max_observes = 1
    /\ constraints_violated # <<>>
    /\ LastLogged = <<"exceeds max observes", call[2], 2, 1>>

\* The (event, linked object) pairs of the registry, an event by its
\* position in events; and the two orderings the validator is about.
Pairs ==
    {p \in (DOMAIN events) \X Keys(objects) :
        p[2] \in Range(events[p[1]].linked_objects)}
EventOf(p) == events[p[1]]
ObjectOf(p) == Get(objects, p[2])
CreatedBefore(p) == EventOf(p).timestamp >= ObjectOf(p).created
DeletedAfter(p) ==
    ObjectOf(p).deleted = None \/ EventOf(p).timestamp <= ObjectOf(p).deleted
Names(entry, p) == entry[2] = EventOf(p).id /\ entry[4] = ObjectOf(p).id

\* C6: validate_temporal_consistency returns True exactly when every (event,
\* linked object) pair has timestamp >= created and, if deleted is set,
\* timestamp <= deleted, equal stamps passing both.  A pair with timestamp <
\* created makes it return False and append the entry naming the event, its
\* timestamp, the object and its created stamp; a pair passing both appends
\* no entry.
C6_ValidateIffConsistent ==
    [][IsCall(call', "validate_temporal_consistency")
       => (/\ ret' = (\A p \in Pairs : CreatedBefore(p) /\ DeletedAfter(p))
           /\ \A p \in Pairs :
                /\ ~CreatedBefore(p)
                   => (/\ ret' = FALSE
                       /\ <<"before", EventOf(p).id, EventOf(p).timestamp,
                            ObjectOf(p).id, ObjectOf(p).created>>
                             \in Range(Appended))
                /\ (CreatedBefore(p) /\ DeletedAfter(p))
                   => \A k \in DOMAIN Appended : ~Names(Appended[k], p))]_vars

\* The validator has just returned False on a registry with a pair whose
\* event precedes the object's creation, which the log names, and a pair
\* with created <= timestamp <= deleted, which the log does not name.
C6_Witness ==
    /\ IsCall(call, "validate_temporal_consistency")
    /\ ret = FALSE
    /\ \E p, q \in Pairs :
          /\ ~CreatedBefore(p)
          /\ <<"before", EventOf(p).id, EventOf(p).timestamp,
               ObjectOf(p).id, ObjectOf(p).created>> \in Range(violations)
          /\ ObjectOf(q).deleted # None
          /\ CreatedBefore(q) /\ DeletedAfter(q)
          /\ \A k \in DOMAIN violations : ~Names(violations[k], q)

\* C7: one run of the validator appends as many entries as there are pairs
\* with timestamp < created plus pairs with timestamp > deleted, over the
\* whole registry: it goes on after a violation, and a pair failing both
\* orderings gives two entries.
C7_ValidateExhaustive ==
    [][IsCall(call', "validate_temporal_consistency")
       => Len(Appended) = Cardinality({p \in Pairs : ~CreatedBefore(p)})
                          + Cardinality({p \in Pairs : ~DeletedAfter(p)})]_vars

\* The validator has just run on a registry with a pair failing both
\* orderings and another failing pair, and reported three entries or more.
C7_Witness ==
    /\ IsCall(call, "validate_temporal_consistency")
    /\ \E p, q \in Pairs :
          /\ p # q
          /\ ~CreatedBefore(p) /\ ~DeletedAfter(p)
          /\ ~CreatedBefore(q) \/ ~DeletedAfter(q)
    /\ Len(violations) >= 3
    /\ IsPrefix(violations, constraints_violated)

\* C8: the validator leaves objects, events, observes and max_observes as
\* they were; the log only grows.
C8_ValidateReadOnly ==
    [][IsCall(call', "validate_temporal_consistency")
       => (/\ objects' = objects
           /\ events' = events
           /\ observes' = observes
           /\ max_observes' = max_observes
           /\ IsPrefix(constraints_violated, constraints_violated'))]_vars

\* The validator has just returned False, and the event it reported is
\* still registered with its Observe record.
C8_Witness ==
    /\ IsCall(call, "validate_temporal_consistency")
    /\ ret = FALSE
    /\ \E p \in Pairs :
          /\ ~CreatedBefore(p) \/ ~DeletedAfter(p)
          /\ ObservesOf(observes, EventOf(p).id) # {}

\* C9: a validator run right after a validator run returns what the first
\* returned and appends the entries the first appended, in the same order.
C9_ValidateRepeats ==
    [][(/\ IsCall(call, "validate_temporal_consistency")
        /\ IsCall(call', "validate_temporal_consistency"))
       => (/\ ret' = ret
           /\ violations' = violations
           /\ Appended = violations)]_vars

\* The validator has returned False twice on a registry with one violation:
\* the log holds that entry twice.
C9_Witness ==
    /\ IsCall(call, "validate_temporal_consistency")
    /\ ret = FALSE
    /\ Len(violations) = 1
    /\ constraints_violated = violations \o violations

\* C10: in every step the log before is a prefix of the log after; an
\* add_object or add_event call that returns True appends nothing and one
\* that returns False appends exactly one entry.
C10_LogAppendOnly ==
    [][/\ IsPrefix(constraints_violated, constraints_violated')
       /\ (IsCall(call', "add_object") \/ IsCall(call', "add_event"))
          => (/\ ret' = TRUE => Len(Appended) = 0
              /\ ret' = FALSE => Len(Appended) = 1)]_vars

\* The log read by get_violations holds a validator entry followed by the
\* entry of a rejected add_object.
C10_Witness ==
    /\ IsCall(call, "get_violations")
    /\ ret = constraints_violated
    /\ Len(constraints_violated) = 2
    /\ constraints_violated[1][1] = "before"
    /\ constraints_violated[2][1] = "Duplicate object ID"

\* The export a registry determines: the declarations of objs and evts in
\* the order they were inserted, a fact for each record of obs in the order
\* of obs, a fact for each event and each of its linked objects, and the
\* numbers of distinct event timestamps, of objects and of events.
ExportOf(objs, evts, obs) ==
    [objects_sig |-> [i \in DOMAIN objs |-> <<"one sig Obj_", objs[i].id>>],
     events_sig |-> [i \in DOMAIN evts |-> <<"one sig Evt_", evts[i].id>>],
     observes_facts |->
        [i \in DOMAIN obs |->
            <<"fact some obs", obs[i].event_id, obs[i].object_id>>],
     temporal_constraints |->
        Concat([i \in DOMAIN evts |->
            [j \in DOMAIN evts[i].linked_objects |->
                <<"timestamp in created.nexts", evts[i].id,
                  evts[i].linked_objects[j]>>]]),
     scope |-> <<Cardinality({evts[i].timestamp : i \in DOMAIN evts}),
                 Len(objs), Len(evts)>>]

\* C11: what to_alloy_format returns is determined by objects, events and
\* observes alone, declarations in insertion order, whatever the log holds and
\* whether or not the validator has run; an export right after an export
\* returns the same text.
C11_ExportDeterministic ==
    [][IsCall(call', "to_alloy_format")
       => (/\ ret' = ExportOf(objects, events, observes)
           /\ IsCall(call, "to_alloy_format") => ret' = ret)]_vars

\* The export has just been returned for a registry whose objects were
\* inserted B first, then A, with an event linked to both, after the
\* validator has logged a violation.
C11_Witness ==
    /\ IsCall(call, "to_alloy_format")
    /\ ret = ExportOf(objects, events, observes)
    /\ ret.objects_sig = << <<"one sig Obj_", "B">>, <<"one sig Obj_", "A">> >>
    /\ Len(ret.temporal_constraints) = 2
    /\ \E k \in DOMAIN constraints_violated : constraints_violated[k][1] = "before"

\* C12: to_alloy_format leaves objects, events, observes and the log as they
\* were, and it can be called in every reachable state, validated or not.
C12_ExportReadOnly ==
    /\ [](ENABLED to_alloy_format)
    /\ [][IsCall(call', "to_alloy_format")
          => /\ objects' = objects
             /\ events' = events
             /\ observes' = observes
             /\ max_observes' = max_observes
             /\ constraints_violated' = constraints_violated]_vars

\* The export has been returned for a registry that holds an event earlier
\* than the creation of one of its linked objects while the log is empty: the
\* validator has not run on it.
C12_Witness ==
    /\ IsCall(call, "to_alloy_format")
    /\ \E p \in Pairs : ~CreatedBefore(p)
    /\ constraints_violated = <<>>
    /\ Len(ret.temporal_constraints) > 0

\* The (event id, object id) pairs the facts of an export section name.
FactPairs(section) == {<<section[i][2], section[i][3]>> : i \in DOMAIN section}
LinkedPairs == {<<EventOf(p).id, p[2]>> : p \in Pairs}

\* The parts of C13 about each section on its own and about the scope line:
\* one relational fact per Observe record, one temporal-ordering fact per
\* (event, linked object) pair whether or not the pair is consistent, the
\* same set of pairs in both sections, and the three scope numbers.
ExportSectionsSound ==
    IsCall(call, "to_alloy_format")
    => /\ Len(ret.observes_facts) = Len(observes)
       /\ \A i \in DOMAIN observes :
            ret.observes_facts[i] =
                <<"fact some obs", observes[i].event_id, observes[i].object_id>>
       /\ Len(ret.temporal_constraints) = Cardinality(Pairs)
       /\ FactPairs(ret.temporal_constraints) = LinkedPairs
       /\ FactPairs(ret.observes_facts) = FactPairs(ret.temporal_constraints)
       /\ ret.scope = <<Cardinality({events[i].timestamp : i \in DOMAIN events}),
                        Len(objects), Len(events)>>

\* C13: after an export of any reachable registry, the text holds exactly one
\* relational fact per Observe record and exactly one temporal-ordering fact
\* per (event, linked object) pair, the two sections name the same pairs with
\* the same number of facts, and the scope line gives the numbers of distinct
\* event timestamps, of objects and of events.
C13_ExportSectionsAgree ==
    /\ ExportSectionsSound
    /\ IsCall(call, "to_alloy_format")
       => Len(ret.observes_facts) = Len(ret.temporal_constraints)

\* C14: in every reachable state each Observe record names an event of
\* events and an object of objects with the relation INVOLVES, and every id
\* in a stored event's linked_objects is a key of objects.
C14_ReferentialIntegrity ==
    /\ \A i \in DOMAIN observes :
        /\ observes[i].event_id \in Keys(events)
        /\ observes[i].object_id \in Keys(objects)
        /\ observes[i].relation = INVOLVES
    /\ \A i \in DOMAIN events :
        Range(events[i].linked_objects) \subseteq Keys(objects)

\* The validator has run over an event linked to two objects, with an
\* Observe record for each, after a rejected call has been logged.
C14_Witness ==
    /\ IsCall(call, "validate_temporal_consistency")
    /\ \E i \in DOMAIN events : Len(events[i].linked_objects) = 2
    /\ {observes[i].object_id : i \in DOMAIN observes} = ObjIdSet
    /\ \E k \in DOMAIN constraints_violated :
        constraints_violated[k][1] = "Unknown object ID"

\* The part of C15 about sets: the (event_id, object_id) pairs of observes
\* are the pairs (e, o) with o in events[e].linked_objects.
ObservePairsAreLinkedPairs ==
    {<<observes[i].event_id, observes[i].object_id>> : i \in DOMAIN observes}
        = LinkedPairs

\* C15: in every reachable state the (event_id, object_id) pairs of observes
\* are the pairs (e, o) with o in events[e].linked_objects, and each event has
\* as many Observe records as its linked_objects set has elements.
C15_ObservesMatchLinkedObjects ==
    /\ ObservePairsAreLinkedPairs
    /\ \A i \in DOMAIN events :
        Cardinality(ObservesOf(observes, events[i].id))
            = Len(events[i].linked_objects)

\* The positions of a linked id list whose id is no key of objects.
Missing(linked_objects) ==
    {j \in DOMAIN linked_objects : linked_objects[j] \notin Keys(objects)}
Min(S) == CHOOSE x \in S : \A y \in S : x <= y

\* C16: an add_event call checks the event id first, then the linked ids in
\* input order, then the length of the list, and a failing call appends
\* exactly one log entry, that of the first check that fails.
C16_FirstFailureLogged ==
    [][IsCall(call', "add_event")
       => LET event_id == call'[2]
              linked == call'[3]
          IN  IF event_id \in Keys(events)
              THEN /\ ret' = FALSE
                   /\ Appended = << <<"Duplicate event ID", event_id>> >>
              ELSE IF Missing(linked) # {}
              THEN /\ ret' = FALSE
                   /\ Appended =
                        << <<"Unknown object ID", linked[Min(Missing(linked))]>> >>
              ELSE IF Len(linked) > max_observes
              THEN /\ ret' = FALSE
                   /\ Appended = << <<"exceeds max observes", event_id,
                                      Len(linked), max_observes>> >>
              ELSE /\ ret' = TRUE
                   /\ Appended = <<>>]_vars

\* A call with a new event id and a list of two distinct missing ids, longer
\* than max_observes, has logged the first id of the list, and nothing else.
C16_Witness ==
    /\ IsCall(call, "add_event")
    /\ ret = FALSE
    /\ call[2] \notin Keys(events)
    /\ Len(call[3]) = 2
    /\ Len(call[3]) > max_observes
    /\ Missing(call[3]) = {1, 2}
    /\ call[3][1] # call[3][2]
    /\ constraints_violated = << <<"Unknown object ID", call[3][1]>> >>

\* A call with a registered event id and a missing linked id has logged the
\* duplicate event id.
C16_WitnessDuplicate ==
    /\ IsCall(call, "add_event")
    /\ ret = FALSE
    /\ call[2] \in Keys(events)
    /\ Missing(call[3]) # {}
    /\ LastLogged = <<"Duplicate event ID", call[2]>>

\* C17: an add_event call returns True exactly when the event id is new, every
\* linked id is a key of objects and the list is no longer than max_observes,
\* whatever the timestamps are; a new event id with an empty list is accepted
\* and appends no Observe record, and with max_observes = 0 no call with a
\* non-empty list is accepted.
C17_AcceptedIffValid ==
    [][IsCall(call', "add_event")
       => LET event_id == call'[2]
              linked == call'[3]
          IN  /\ ret' = TRUE
                    <=> /\ event_id \notin Keys(events)
                        /\ Range(linked) \subseteq Keys(objects)
                        /\ Len(linked) <= max_observes
              /\ (event_id \notin Keys(events) /\ linked = <<>>)
                    => /\ ret' = TRUE
                       /\ event_id \in Keys(events')
                       /\ observes' = observes
              /\ (max_observes = 0 /\ linked # <<>>) => ret' = FALSE]_vars

\* An event earlier than the creation of an object it links, or later than
\* its deletion, has just been accepted.
C17_Witness ==
    /\ IsCall(call, "add_event")
    /\ ret = TRUE
    /\ \E p \in Pairs :
        /\ EventOf(p).id = call[2]
        /\ ~CreatedBefore(p) \/ ~DeletedAfter(p)

\* A new event with an empty list has just been accepted with max_observes = 0.
C17_WitnessEmpty ==
    /\ IsCall(call, "add_event")
    /\ ret = TRUE
    /\ call[3] = <<>>
    /\ max_observes = 0
    /\ observes = <<>>
    /\ objects # <<>>

\* C18: in every reachable state each stored event has at most max_observes
\* linked objects and at most max_observes Observe records.
C18_ObservesBounded ==
    \A i \in DOMAIN events :
        /\ Len(events[i].linked_objects) <= max_observes
        /\ Cardinality(ObservesOf(observes, events[i].id)) <= max_observes

\* After a list longer than max_observes was refused, an event is stored with
\* exactly max_observes linked objects and as many Observe records.
C18_Witness ==
    /\ max_observes = 1
    /\ \E k \in DOMAIN constraints_violated :
        constraints_violated[k][1] = "exceeds max observes"
    /\ \E i \in DOMAIN events :
        /\ Len(events[i].linked_objects) = max_observes
        /\ Cardinality(ObservesOf(observes, events[i].id)) = max_observes

\* A step of the core: any call but the caller's own write of Object.deleted.
CoreStep == call'[1] # "set_deleted"

\* C19: a call of the core removes or changes no stored object and no stored
\* event, leaves observes a prefix of what it becomes, and add_object refuses
\* every id that is a key of objects; no step at all removes an id.
C19_RegistryOnlyGrows ==
    [][/\ Keys(objects) \subseteq Keys(objects')
       /\ Keys(events) \subseteq Keys(events')
       /\ CoreStep =>
            /\ \A k \in Keys(objects) : Get(objects', k) = Get(objects, k)
            /\ \A k \in Keys(events) : Get(events', k) = Get(events, k)
            /\ IsPrefix(objects, objects')
            /\ IsPrefix(events, events')
            /\ IsPrefix(observes, observes')
       /\ (IsCall(call', "add_object") /\ call'[2] \in Keys(objects))
            => ret' = FALSE]_vars

\* With an event and its Observe records stored, add_object has refused the
\* id of a registered object and add_event the id of the stored event.
C19_Witness ==
    /\ IsCall(call, "add_object")
    /\ ret = FALSE
    /\ events # <<>>
    /\ Len(observes) = 2
    /\ Len(constraints_violated) = 2
    /\ constraints_violated[1] = <<"Duplicate event ID", events[1].id>>
    /\ constraints_violated[2] = <<"Duplicate object ID", call[2]>>

\* What the two threads have returned, once both have.
BothDone == \A t \in Threads : threads[t].pc = "done"
Accepted == {t \in Threads : threads[t].pc = "done" /\ threads[t].ret = TRUE}
RacedId == threads["T1"].id
EntriesOf(d, k) == {i \in DOMAIN d : d[i].id = k}

\* Thread t has just written its record under its id.
Inserts(t) == threads[t].pc = "insert" /\ threads'[t].pc # "insert"

\* C20: of two interleaved calls that insert under the same new id, at least
\* one returns True; both can, and then the id has one stored record, each
\* write having replaced what was stored under the id, and for add_event the
\* Observe records of both calls are in observes under the one event id.
\* When the calls run under one lock, exactly one of them returns True.
C20_CheckThenInsert ==
    /\ [](BothDone =>
            /\ Cardinality(Accepted) >= 1
            /\ lock # "unused" => Cardinality(Accepted) = 1
            /\ Cardinality(Accepted) = 2 =>
                 IF threads["T1"].op = "add_object"
                 THEN Cardinality(EntriesOf(objects, RacedId)) = 1
                 ELSE /\ Cardinality(EntriesOf(events, RacedId)) = 1
                      /\ Cardinality(ObservesOf(observes, RacedId))
                            = Len(threads["T1"].linked) + Len(threads["T2"].linked)
                      /\ \A t \in Threads :
                            Range(threads[t].linked)
                                \subseteq {observes[i].object_id : i \in DOMAIN observes})
    /\ [][\A t \in Threads :
            Inserts(t) =>
                IF threads[t].op = "add_object"
                THEN /\ Get(objects', threads[t].id).created = threads[t].time
                     /\ Len(objects') = Len(objects) + 
                            (IF threads[t].id \in Keys(objects) THEN 0 ELSE 1)
                ELSE /\ Get(events', threads[t].id).timestamp = threads[t].time
                     /\ Range(Get(events', threads[t].id).linked_objects)
                            = Range(threads[t].linked)
                     /\ Len(events') = Len(events) +
                            (IF threads[t].id \in Keys(events) THEN 0 ELSE 1)]_vars

\* Without a lock, two add_event calls under one id have both returned True:
\* one stamped 0 and linked to A, the other stamped 1 and linked to B.  One
\* event is stored, and observes holds a record for A and one for B.
C20_Witness ==
    /\ lock = "unused"
    /\ BothDone
    /\ Accepted = Threads
    /\ threads["T1"].op = "add_event"
    /\ threads["T1"].time = 0 /\ threads["T1"].linked = <<"A">>
    /\ threads["T2"].time = 1 /\ threads["T2"].linked = <<"B">>
    /\ Len(events) = 1
    /\ events[1].timestamp = 0
    /\ events[1].linked_objects = <<"A">>
    /\ {<<observes[i].event_id, observes[i].object_id>> : i \in DOMAIN observes}
            = {<<RacedId, "A">>, <<RacedId, "B">>}

\* Without a lock, two add_object calls under one id have both returned True,
\* and the record of the one that wrote last is stored.
C20_WitnessObjects ==
    /\ lock = "unused"
    /\ BothDone
    /\ Accepted = Threads
    /\ threads["T1"].op = "add_object"
    /\ threads["T1"].time # threads["T2"].time
    /\ Cardinality(EntriesOf(objects, RacedId)) = 1

\* Under the lock, the second of two add_event calls has been refused.
C20_WitnessLocked ==
    /\ lock = "free"
    /\ BothDone
    /\ Cardinality(Accepted) = 1
    /\ threads["T1"].op = "add_event"
    /\ Len(observes) = 2
    /\ constraints_violated = << <<"Duplicate event ID", RacedId>> >>

====
